---- MODULE Spec2Model ----
(***************************************************************************)
(* RainGauge firmware: the deep-sleep sensor scheduler (SensorScheduler),  *)
(* the main sketch that drives it (setup / loop) and the power controller  *)
(* (DebugManager).  Time values are unsigned long words; the word is       *)
(* modelled with WordBits bits instead of 32 so that wrap-around is        *)
(* reachable when the model is explored.                                   *)
(***************************************************************************)
EXTENDS Integers, Sequences, FiniteSets, TLC

\* ------------------------------------------------------------------ bounds
\* Width of the modelled unsigned long (32 on the ESP32).
WordBits == 20
\* Number of boots (wakes) explored after a cold start.
MaxBoots == 4

\* ------------------------------------------------------- program constants
BatteryInterval == 300000
RainInterval == 60000
SoilTempInterval == 120000
Bmp280Interval == 180000
DefaultSleepMs == 60000
maxAttempts == 5
\* isr(): a trigger is accepted when more than this many ms passed
DebounceMs == 100
\* #define MQTT_QUEUE_LENGTH 10
MQTT_QUEUE_LENGTH == 10
\* unit_of_rain = 0.01193 inches per tip, in units of 0.00001 inch
UnitOfRain == 1193

\* --------------------------------------------------------- unsigned words
Word == 2 ^ WordBits
ULONG_MAX == Word - 1
\* unsigned long addition and subtraction: results wrap modulo the word
Add(a, b) == (a + b) % Word
Sub(a, b) == (a - b + Word) % Word

\* ---------------------------------------------------------------- sensors
Sensors == {"Battery", "RainGauge", "SoilTemp", "BMP280"}

\* getUpdateInterval() of each concrete sensor
Interval(s) ==
  CASE s = "Battery" -> BatteryInterval
    [] s = "RainGauge" -> RainInterval
    [] s = "SoilTemp" -> SoilTempInterval
    [] s = "BMP280" -> Bmp280Interval

\* The addSensor() calls of setup(), in order.  A build registers the sensors
\* of one of these lists (addSensor skips a sensor without a persistent slot).
\* "Null" stands for addSensor(nullptr), "NoSlot" for a sensor object whose
\* getLastUpdatePtr() returns nullptr.
Configs ==
  { << >>,
    << "RainGauge" >>,
    << "RainGauge", "SoilTemp" >>,
    << "SoilTemp", "BMP280" >>,
    << "RainGauge", "SoilTemp", "BMP280" >>,
    << "Battery", "RainGauge", "SoilTemp", "BMP280" >>,
    << "RainGauge", "Null", "SoilTemp" >>,
    << "RainGauge", "NoSlot", "SoilTemp" >> }

\* What the hardware does during one wake: the sensors whose discovery in
\* begin() fails and the sensors whose measurement in handle() fails.
HardwareCases ==
  { [missing |-> {}, fault |-> {}],
    [missing |-> {"SoilTemp"}, fault |-> {"SoilTemp", "BMP280"}],
    [missing |-> {"BMP280"}, fault |-> {}] }

\* millis() when the static SensorScheduler constructor runs: the uptime of
\* this boot, a few tens of milliseconds after reset and never 0.
MillisAtBoot == {37, 64}

Range(seq) == {seq[i] : i \in 1..Len(seq)}

VARIABLES
  schedulerLastWakeTime,   \* RTC: logical time of the last completed dispatch
  schedulerSleepDuration,  \* RTC: planned duration of the current/last sleep
  lastUpdate,              \* RTC: per-sensor last update time
  bootCount,               \* RTC: number of boots
  urgent,                  \* per sensor: what needsUpdate() reports
  build,                   \* the sensors this build registers in setup()
  tasks,                   \* scheduler: registered sensors, registration order
  enabled,                 \* scheduler: SensorTask.enabled per sensor
  currentWakeTime,         \* scheduler: logical now of this wake
  firstBoot,               \* scheduler: first boot flag
  wakeup_reason,           \* esp_sleep_get_wakeup_cause()
  sleptMs,                 \* environment: how long the last sleep really lasted
  timerUs,                 \* argument of the last esp_sleep_enable_timer_wakeup
  debug_mode,              \* DebugManager.debug_mode
  pubConnected,            \* PubSubClient.connected()
  pc,                      \* "reset", "loop", "asleep", "halted"
  hwMissing,               \* environment: sensors not found by begin() this wake
  sensorFault,             \* environment: sensors whose measurement fails this wake
  ctorMillis,              \* history: millis() as the scheduler constructor read it
  everServed,              \* history: sensors dispatched since the cold start
  rain,                    \* rain gauge: RTC counters, object members, updateRain
                           \* position and locals, and the history of tips
  millisNow,               \* millis(): the uptime clock of this wake
  mqtt_queue,              \* the outbound MqttMessageQueue (RAM)
  qh,                      \* queue unit specification: call frame and history
  cyc,                     \* history: what the last loop() iteration did
  wk,                      \* history: what this wake has done so far
  prev,                    \* history: the previous wake
  fromCold,                \* history: this run began with a cold start
  timerNow                 \* history: logical now the constructor gives a timer wake

vars ==
  << schedulerLastWakeTime, schedulerSleepDuration, lastUpdate, bootCount,
     urgent, build, tasks, enabled, currentWakeTime, firstBoot, wakeup_reason,
     sleptMs, timerUs, debug_mode, pubConnected, pc, cyc, wk, prev, fromCold,
     timerNow, hwMissing, sensorFault, ctorMillis, everServed, rain,
     millisNow, mqtt_queue, qh >>

\* Hardware of this wake and the history values that only Boot and the
\* dispatch write.
envVars == << hwMissing, sensorFault, ctorMillis >>

\* The rain gauge and the uptime clock its isr() reads.
rainVars == << rain, millisNow >>

\* The outbound queue and the harness of its unit specification.
queueVars == << mqtt_queue, qh >>

\* ------------------------------------------------- SensorScheduler (class)

\* Variant: a rain wake advances the clock by the uptime, not the planned sleep.
SchedulerCtorByUptime(lastWake, sleepDur, reason, millis) ==
  IF lastWake = 0
    THEN [currentWakeTime |-> millis, firstBoot |-> TRUE]
    ELSE IF reason = "EXT0"
      THEN [currentWakeTime |-> Add(lastWake, millis), firstBoot |-> FALSE]
      ELSE [currentWakeTime |-> Add(lastWake, sleepDur), firstBoot |-> FALSE]

\* Variant: every wake takes the uptime clock as its logical now.
SchedulerCtorAlwaysUptime(lastWake, sleepDur, reason, millis) ==
  [currentWakeTime |-> millis, firstBoot |-> (lastWake = 0)]

\* The constructor: logical now and first-boot flag of this wake.
SchedulerCtor(lastWake, sleepDur, reason, millis) ==
  IF lastWake = 0
    THEN [currentWakeTime |-> millis, firstBoot |-> TRUE]
    ELSE [currentWakeTime |-> Add(lastWake, sleepDur), firstBoot |-> FALSE]

\* checkAndUpdateAll: the value of (currentWakeTime - *task.lastUpdate)
CheckElapsed(now, last) == Sub(now, last)

\* Variant: the interval must be exceeded, not reached.
IntervalDueStrict(now, last, interval) ==
  (last = 0) \/ (CheckElapsed(now, last) > interval)

\* checkAndUpdateAll: bool intervalDue
IntervalDue(now, last, interval) ==
  (last = 0) \/ (CheckElapsed(now, last) >= interval)

\* hasDataToSend: unsigned long timeSinceUpdate
HasDataElapsed(now, last) ==
  IF last = 0 THEN 0
  ELSE IF now >= last THEN now - last
  ELSE 0

\* Variant: no resync branch, a clock behind lastUpdate counts as no time passed.
IsDueNoResync(now, last, interval) ==
  IF last = 0 THEN TRUE
  ELSE HasDataElapsed(now, last) >= interval

\* hasDataToSend: bool isDue
IsDue(now, last, interval) ==
  IF last = 0 THEN TRUE
  ELSE IF now >= last THEN HasDataElapsed(now, last) >= interval
  ELSE TRUE

\* getNextWakeTime: unsigned long timeSinceLastUpdate
NextWakeElapsed(now, last) == Sub(now, last)

\* Variant: every sensor is planned a full interval ahead.
TimeUntilFullInterval(now, last, interval) == interval

\* Variant: the remaining time of an overdue sensor is not clamped to 0.
TimeUntilUnclamped(now, last, interval) ==
  Sub(interval, NextWakeElapsed(now, last))

\* getNextWakeTime: timeUntilNextUpdate of one task
TimeUntilNextUpdate(now, last, interval) ==
  LET timeSinceLastUpdate == NextWakeElapsed(now, last)
  IN IF timeSinceLastUpdate < interval
       THEN interval - timeSinceLastUpdate
       ELSE 0

RECURSIVE HasDataFrom(_, _, _, _, _, _, _)
HasDataFrom(i, tk, en, urg, fb, now, lu) ==
  IF i > Len(tk) THEN FALSE
  ELSE LET s == tk[i]
       IN IF ~en[s] THEN HasDataFrom(i + 1, tk, en, urg, fb, now, lu)
          ELSE IF urg[s] THEN TRUE
          ELSE IF fb THEN TRUE
          ELSE IF IsDue(now, lu[s], Interval(s)) THEN TRUE
          ELSE HasDataFrom(i + 1, tk, en, urg, fb, now, lu)

\* Variant: the first-boot flag is not consulted.
HasDataToSendNoFirstBoot(tk, en, urg, fb, now, lu) ==
  HasDataFrom(1, tk, en, urg, FALSE, now, lu)

HasDataToSend(tk, en, urg, fb, now, lu) ==
  HasDataFrom(1, tk, en, urg, fb, now, lu)

\* handle() of sensor s: the reading it queues is fresh, or stale when the
\* measurement failed; it returns nothing and resets the sensor's own flags.
Handle(s, fault) == IF s \in fault THEN "stale" ELSE "fresh"

\* Variant: a sensor whose measurement failed is not stamped.
DispatchTaskStampOnSuccess(s, now, st) ==
  LET reading == Handle(s, st.fault)
  IN [st EXCEPT !.log = Append(Append(st.log, << "handle", s, reading >>),
                               << "stamp", s, now >>),
                !.urg = [st.urg EXCEPT ![s] = FALSE],
                !.lu = IF reading = "fresh" THEN [st.lu EXCEPT ![s] = now]
                       ELSE st.lu,
                !.handled = st.handled \cup {s}]

\* Variant: the logical clock is stamped as a duration since this wake began.
DispatchTaskStampZero(s, now, st) ==
  LET reading == Handle(s, st.fault)
  IN [st EXCEPT !.log = Append(Append(st.log, << "handle", s, reading >>),
                               << "stamp", s, now >>),
                !.urg = [st.urg EXCEPT ![s] = FALSE],
                !.lu = [st.lu EXCEPT ![s] = Sub(now, now)],
                !.handled = st.handled \cup {s}]

\* Variant: the calls are recorded newest first.
DispatchTaskNewestFirst(s, now, st) ==
  LET reading == Handle(s, st.fault)
  IN [st EXCEPT !.log = << << "handle", s, reading >>, << "stamp", s, now >> >>
                        \o st.log,
                !.urg = [st.urg EXCEPT ![s] = FALSE],
                !.lu = [st.lu EXCEPT ![s] = now],
                !.handled = st.handled \cup {s}]

\* The body of the dispatch loop for a due task: handle() is called, and when
\* it has returned lastUpdate is stamped with the logical now.  log lists the
\* two calls in the order the code makes them.
DispatchTask(s, now, st) ==
  LET reading == Handle(s, st.fault)
  IN [st EXCEPT !.log = Append(Append(st.log, << "handle", s, reading >>),
                               << "stamp", s, now >>),
                !.urg = [st.urg EXCEPT ![s] = FALSE],
                !.lu = [st.lu EXCEPT ![s] = now],
                !.handled = st.handled \cup {s}]

\* Variant: an enabled task that is not due is stamped as well.
RECURSIVE CheckFromStampsAll(_, _, _, _, _)
CheckFromStampsAll(i, tk, en, now, st) ==
  IF i > Len(tk) THEN st
  ELSE LET s == tk[i]
           due == IntervalDue(now, st.lu[s], Interval(s)) \/ st.urg[s]
       IN IF en[s] /\ due
            THEN CheckFromStampsAll(i + 1, tk, en, now, DispatchTask(s, now, st))
            ELSE CheckFromStampsAll(i + 1, tk, en, now,
                                    [st EXCEPT !.lu = [st.lu EXCEPT ![s] = now]])

\* One pass of the dispatch loop from task i on.
RECURSIVE CheckFrom(_, _, _, _, _)
CheckFrom(i, tk, en, now, st) ==
  IF i > Len(tk) THEN st
  ELSE LET s == tk[i]
           due == IntervalDue(now, st.lu[s], Interval(s)) \/ st.urg[s]
       IN IF en[s] /\ due
            THEN CheckFrom(i + 1, tk, en, now, DispatchTask(s, now, st))
            ELSE CheckFrom(i + 1, tk, en, now, st)

\* The dispatch loop before its first task, with the given measurement faults.
DispatchStart(urg, lu, fault) ==
  [lu |-> lu, urg |-> urg, handled |-> {}, log |-> << >>, fault |-> fault]

\* Variant: the dispatch loop forgets to persist the wake time.
CheckAndUpdateAllNoStamp(tk, en, urg, now, lu) ==
  LET r == CheckFrom(1, tk, en, now, DispatchStart(urg, lu, sensorFault))
  IN [lu |-> r.lu, urg |-> r.urg, handled |-> r.handled, log |-> r.log,
      lastWake |-> schedulerLastWakeTime]

\* checkAndUpdateAll: the new per-sensor state, the sensors whose handle() was
\* called, and the new schedulerLastWakeTime.
CheckAndUpdateAll(tk, en, urg, now, lu) ==
  LET r == CheckFrom(1, tk, en, now, DispatchStart(urg, lu, sensorFault))
  IN [lu |-> r.lu, urg |-> r.urg, handled |-> r.handled, log |-> r.log,
      lastWake |-> now]

\* Variant: removing a registered sensor disables every task.
RemoveSensorDisablesAll(tk, en, id) ==
  [s \in Sensors |-> IF id \in Range(tk) THEN FALSE ELSE en[s]]

\* removeSensor(sensorId): the enabled flags afterwards.  The first task with
\* that id is disabled (a sensor is registered at most once here).
RemoveSensorFlags(tk, en, id) ==
  [s \in Sensors |-> IF s = id /\ s \in Range(tk) THEN FALSE ELSE en[s]]

\* getActiveSensorCount(): the number of enabled tasks.
GetActiveSensorCount(tk, en) == Cardinality({i \in 1..Len(tk) : en[tk[i]]})

\* begin() of sensor x does not return: bmp280sensor::begin loops forever when
\* the chip is not found; Tempsensor::begin logs and carries on.
BeginHalts(x, missing) == x = "BMP280" /\ x \in missing

\* addSensor(x) on the registration state reg: tasks so far, and whether
\* setup() is stuck inside a begin().
AddSensor(reg, x, missing) ==
  IF reg.halted THEN reg
  ELSE IF x = "Null" THEN reg
  ELSE IF BeginHalts(x, missing) THEN [reg EXCEPT !.halted = TRUE]
  ELSE IF x = "NoSlot" THEN reg
  ELSE [reg EXCEPT !.tasks = Append(reg.tasks, x)]

\* The addSensor calls of setup() from the i-th on.
RECURSIVE SetupSensors(_, _, _, _)
SetupSensors(i, b, missing, reg) ==
  IF i > Len(b) THEN reg
  ELSE SetupSensors(i + 1, b, missing, AddSensor(reg, b[i], missing))

RECURSIVE NextWakeFrom(_, _, _, _, _, _, _)
NextWakeFrom(i, shortest, tk, en, urg, now, lu) ==
  IF i > Len(tk)
    THEN IF shortest = ULONG_MAX THEN DefaultSleepMs ELSE shortest
  ELSE LET s == tk[i]
           until == TimeUntilNextUpdate(now, lu[s], Interval(s))
       IN IF ~en[s] THEN NextWakeFrom(i + 1, shortest, tk, en, urg, now, lu)
          ELSE IF urg[s] THEN 0
          ELSE NextWakeFrom(i + 1, IF until < shortest THEN until ELSE shortest,
                            tk, en, urg, now, lu)

GetNextWakeTime(tk, en, urg, now, lu) ==
  NextWakeFrom(1, ULONG_MAX, tk, en, urg, now, lu)

\* prepareSleep: the value stored in schedulerSleepDuration
PrepareSleep(sleepTimeMs) == sleepTimeMs

\* ---------------------------------------------------------- message queue
\* An MqttMessage: every sensor publishes on the same topic; the payload is
\* the serialised document, told apart by the sensor that built it and a
\* serial number.
Topic == "backyard/test/"
Msg(s, n) == [topic |-> Topic, payload |-> << s, n >>]
\* A default-constructed MqttMessage (two empty Strings).
NoMsg == [topic |-> "", payload |-> << "", 0 >>]

\* MqttMessageQueue<max>(): _head(0), _tail(0), _count(0)
QueueCtor(max) ==
  [head |-> 0, tail |-> 0, count |-> 0, slots |-> [i \in 0..(max - 1) |-> NoMsg]]

IsEmpty(q) == q.count = 0
IsFull(q, max) == q.count = max

\* Variant: a full queue overwrites its oldest slot.
EnqueueOverwrites(q, max, m) ==
  [q |-> [q EXCEPT !.slots[q.tail] = m, !.tail = (q.tail + 1) % max,
                   !.count = IF q.count = max THEN max ELSE q.count + 1],
   ret |-> TRUE]

\* enqueue(topic, doc): the new queue and the value returned.
Enqueue(q, max, m) ==
  IF IsFull(q, max)
    THEN [q |-> q, ret |-> FALSE]
    ELSE [q |-> [q EXCEPT !.slots[q.tail] = m,
                          !.tail = (q.tail + 1) % max,
                          !.count = q.count + 1],
          ret |-> TRUE]

\* dequeue(message), statement by statement.  c is the frame of the call:
\* c.at its position, c.message the caller's object, c.tmp the value of _count
\* loaded by _count--, c.ret the value returned.
NoCall == [at |-> "idle", message |-> NoMsg, tmp |-> 0, ret |-> FALSE]

\* if (isEmpty()) { return false; }
DequeueTest(q, c) ==
  IF IsEmpty(q)
    THEN [q |-> q, c |-> [c EXCEPT !.ret = FALSE, !.at = "idle"]]
    ELSE [q |-> q, c |-> [c EXCEPT !.at = "copy"]]

\* message = _queue[_head]
DequeueCopy(q, c) ==
  [q |-> q, c |-> [c EXCEPT !.message = q.slots[q.head], !.at = "head"]]

\* Variant: _head is not advanced.
DequeueHeadStays(q, max, c) ==
  [q |-> q, c |-> [c EXCEPT !.at = "load"]]

\* _head = (_head + 1) % MAX_SIZE
DequeueHead(q, max, c) ==
  [q |-> [q EXCEPT !.head = (q.head + 1) % max], c |-> [c EXCEPT !.at = "load"]]

\* _count--: the load
DequeueLoad(q, c) ==
  [q |-> q, c |-> [c EXCEPT !.tmp = q.count, !.at = "store"]]

\* Variant: _count-- is omitted.
DequeueStoreKeepsCount(q, c) ==
  [q |-> q, c |-> [c EXCEPT !.ret = TRUE, !.at = "idle"]]

\* _count--: the store; return true
DequeueStore(q, c) ==
  [q |-> [q EXCEPT !.count = c.tmp - 1],
   c |-> [c EXCEPT !.ret = TRUE, !.at = "idle"]]

\* The next statement of dequeue() from position c.at.
DequeueStep(q, max, c) ==
  CASE c.at = "idle" -> DequeueTest(q, c)
    [] c.at = "copy" -> DequeueCopy(q, c)
    [] c.at = "head" -> DequeueHead(q, max, c)
    [] c.at = "load" -> DequeueLoad(q, c)
    [] c.at = "store" -> DequeueStore(q, c)

RECURSIVE DequeueRest(_, _, _)
DequeueRest(q, max, c) ==
  IF c.at = "idle" THEN [q |-> q, c |-> c]
  ELSE \* the rest of the call, with nothing in between
       LET n == DequeueStep(q, max, c) IN DequeueRest(n.q, max, n.c)

\* Variant: the newest message is taken.
DequeueNewest(q, max, message) ==
  IF IsEmpty(q)
    THEN [q |-> q, ret |-> FALSE, message |-> message]
    ELSE [q |-> [q EXCEPT !.tail = (q.tail + max - 1) % max,
                          !.count = q.count - 1],
          ret |-> TRUE, message |-> q.slots[(q.tail + max - 1) % max]]

\* dequeue(message) run to its end: the new queue, the value returned and the
\* caller's object.
Dequeue(q, max, message) ==
  LET first == DequeueTest(q, [NoCall EXCEPT !.message = message])
      done == DequeueRest(first.q, max, first.c)
  IN [q |-> done.q, ret |-> done.c.ret, message |-> done.c.message]

\* The messages of seq enqueued in order; the return values are ignored, as
\* the sensors ignore them.
RECURSIVE EnqueueAll(_, _, _)
EnqueueAll(q, max, seq) ==
  IF seq = << >> THEN q
  ELSE EnqueueAll(Enqueue(q, max, Head(seq)).q, max, Tail(seq))

\* Variant: only the message at the head is sent.
SendQueuedMessagesOnce(q, max, published) ==
  IF IsEmpty(q) THEN [q |-> q, published |-> published]
  ELSE LET d == Dequeue(q, max, NoMsg)
       IN [q |-> d.q,
           published |-> IF d.ret THEN Append(published, d.message)
                         ELSE published]

\* sendQueuedMessages: dequeue and publish until the queue is empty.
RECURSIVE SendQueuedMessages(_, _, _)
SendQueuedMessages(q, max, published) ==
  IF IsEmpty(q) THEN [q |-> q, published |-> published]
  ELSE LET d == Dequeue(q, max, NoMsg)
       IN SendQueuedMessages(d.q, max,
            IF d.ret THEN Append(published, d.message) ELSE published)

\* The messages the handle() calls of a dispatch enqueue, in the order of the
\* calls: one per sensor, the rain gauge's only when its update runs.
RECURSIVE MessagesOf(_, _)
MessagesOf(log, gate) ==
  IF log = << >> THEN << >>
  ELSE IF Head(log)[1] = "handle" /\ (Head(log)[2] # "RainGauge" \/ gate)
         THEN << Msg(Head(log)[2], 0) >> \o MessagesOf(Tail(log), gate)
         ELSE MessagesOf(Tail(log), gate)

\* The harness of the queue's unit specification: the consumer's call frame
\* and the history of the calls made.
NoHarness ==
  [c |-> NoCall, made |-> 0, accepted |-> << >>, delivered |-> << >>,
   last |-> [op |-> "none", ret |-> FALSE, pre |-> QueueCtor(1),
             preMessage |-> NoMsg, msg |-> NoMsg]]

\* ------------------------------------------------------------ rain gauge
\* rain.latest_Raincount and rain.activeRain are the RTC variables,
\* rain.rainBucketsDumped and rain.lastMillis the members _rainBucketsDumped
\* and _lastMillis, rain.at the position of the main flow inside updateRain()
\* and rain.rainLastHour its local.  History: pendingWake / pendingIsr count
\* the tips counted by print_wakeup_reason / accepted by isr() that no report
\* has covered yet, covered what the report being built covers, erasedWake /
\* erasedIsr whether such a tip was wiped by the reset of the counter during
\* this wake, report the last message queued during this wake (the queue is
\* in RAM), isrSeen the last isr() call of this wake, calls the number of
\* updateRain() calls of this wake that were followed statement by statement.
NoIsr == [fired |-> FALSE, accepted |-> FALSE, dt |-> 0]
NoReport == [made |-> FALSE, value |-> 0, wake |-> 0, isr |-> 0]

RainAtColdStart ==
  [latest_Raincount |-> 0, activeRain |-> FALSE, rainBucketsDumped |-> 0,
   lastMillis |-> 0, at |-> "idle", rainLastHour |-> 0,
   pendingWake |-> 0, pendingIsr |-> 0, covered |-> [wake |-> 0, isr |-> 0],
   erasedWake |-> FALSE, erasedIsr |-> FALSE, report |-> NoReport,
   isrSeen |-> NoIsr, calls |-> 0]

\* print_wakeup_reason(): a wake by the rain pin counts one tip.
WakeupReason(r, reason) ==
  IF reason = "EXT0"
    THEN [r EXCEPT !.latest_Raincount = @ + 1, !.pendingWake = @ + 1]
    ELSE r

\* The Raingauge object of this boot: members zero, _lastMillis = millis();
\* the history of the wake starts empty.
RaingaugeCtor(r, millis) ==
  [r EXCEPT !.rainBucketsDumped = 0, !.lastMillis = millis, !.at = "idle",
            !.rainLastHour = 0, !.covered = [wake |-> 0, isr |-> 0],
            !.erasedWake = FALSE, !.erasedIsr = FALSE, !.report = NoReport,
            !.isrSeen = NoIsr, !.calls = 0]

\* Variant: a trigger exactly at the end of the window is accepted.
IsrAcceptsAtWindowEnd(now, last) == Sub(now, last) >= DebounceMs

\* isr(): millis() - _lastMillis > 100
IsrAccepts(now, last) == Sub(now, last) > DebounceMs

\* isr() at uptime now; stamp is what the second millis() call returns.
Isr(r, now, stamp) ==
  IF IsrAccepts(now, r.lastMillis)
    THEN [r EXCEPT !.rainBucketsDumped = @ + 1,
                   !.latest_Raincount = @ + (r.rainBucketsDumped + 1),
                   !.activeRain = TRUE,
                   !.lastMillis = stamp,
                   !.pendingIsr = @ + 1,
                   !.isrSeen = [fired |-> TRUE, accepted |-> TRUE,
                                dt |-> Sub(now, r.lastMillis)]]
    ELSE [r EXCEPT !.isrSeen = [fired |-> TRUE, accepted |-> FALSE,
                                dt |-> Sub(now, r.lastMillis)]]

\* updateRain(), statement by statement.
\* float rainLastHour = 0.0; if (isRaining())
UpdateRainTest(r) ==
  [r EXCEPT !.rainLastHour = 0,
            !.at = IF r.activeRain THEN "raining" ELSE "dry"]

\* rainLastHour = (float)latest_Raincount * unit_of_rain
UpdateRainRead(r) ==
  [r EXCEPT !.rainLastHour = r.latest_Raincount * UnitOfRain,
            !.covered = [wake |-> r.pendingWake, isr |-> r.pendingIsr],
            !.pendingWake = 0, !.pendingIsr = 0,
            !.at = "read"]

\* activeRain = false
UpdateRainClearActive(r) == [r EXCEPT !.activeRain = FALSE, !.at = "cleared"]

\* _rainBucketsDumped = 0
UpdateRainClearDumped(r) == [r EXCEPT !.rainBucketsDumped = 0, !.at = "zeroed"]

\* myObject["rain"] = rainLastHour; tx_queue->enqueue(...)
UpdateRainEnqueue(r) ==
  [r EXCEPT !.report = [made |-> TRUE, value |-> r.rainLastHour,
                        wake |-> r.covered.wake, isr |-> r.covered.isr],
            !.covered = [wake |-> 0, isr |-> 0],
            !.at = "queued"]

\* latest_Raincount = 0
UpdateRainReset(r) ==
  [r EXCEPT !.latest_Raincount = 0,
            !.erasedWake = @ \/ (r.pendingWake > 0),
            !.erasedIsr = @ \/ (r.pendingIsr > 0),
            !.pendingWake = 0, !.pendingIsr = 0,
            !.at = "idle"]

\* The next statement of updateRain() from position r.at.
UpdateRainStep(r) ==
  CASE r.at = "idle" -> UpdateRainTest(r)
    [] r.at = "raining" -> UpdateRainRead(r)
    [] r.at = "read" -> UpdateRainClearActive(r)
    [] r.at = "cleared" -> UpdateRainClearDumped(r)
    [] r.at \in {"zeroed", "dry"} -> UpdateRainEnqueue(r)
    [] r.at = "queued" -> UpdateRainReset(r)

\* updateRain() run to its end without an interrupt in between.
RECURSIVE UpdateRainRest(_)
UpdateRainRest(r) ==
  IF r.at = "idle" THEN r ELSE UpdateRainRest(UpdateRainStep(r))

UpdateRain(r) == UpdateRainRest(UpdateRainTest(r))

\* Raingauge::handle(): if (isTimeToUpdate()) { reportRain(); updateRain(); }
RainHandle(r, isTimeToUpdate) == IF isTimeToUpdate THEN UpdateRain(r) ELSE r

\* What a dispatch does to the rain gauge: handle() runs when the scheduler
\* served "RainGauge".  isTimeToUpdate() is not defined by this class; gate is
\* what it returns.
DispatchRain(r, handled, gate) ==
  IF "RainGauge" \in handled THEN RainHandle(r, gate) ELSE r

\* The values isTimeToUpdate() can return in a dispatch that served handled.
Gates(handled) == IF "RainGauge" \in handled THEN BOOLEAN ELSE {FALSE}

\* ---------------------------------------------------- sketch and power

\* Variant: the retry loop runs one attempt past maxAttempts before giving up.
ConnectToMqttOneMoreAttempt(connectedAtEntry, firstOk) ==
  IF connectedAtEntry
    THEN [ret |-> FALSE, connected |-> TRUE, attempts |-> 0]
    ELSE IF firstOk = 0
      THEN [ret |-> FALSE, connected |-> FALSE, attempts |-> maxAttempts + 1]
      ELSE [ret |-> TRUE, connected |-> TRUE, attempts |-> firstOk]

\* connectToMqtt: firstOk is the attempt at which pub.connect() succeeds
\* (0: it never does).  The loop is skipped when the client is connected.
ConnectToMqtt(connectedAtEntry, firstOk) ==
  IF connectedAtEntry
    THEN [ret |-> FALSE, connected |-> TRUE, attempts |-> 0]
    ELSE IF firstOk = 0
      THEN [ret |-> FALSE, connected |-> FALSE, attempts |-> maxAttempts]
      ELSE [ret |-> TRUE, connected |-> TRUE, attempts |-> firstOk]

\* loop(): esp_sleep_enable_timer_wakeup(1000000ULL * (sleepTime / 1000))
LoopTimerUs(sleepTime) == 1000000 * (sleepTime \div 1000)

\* Variant: enterSleepMode keeps the timer that loop() armed.
EnterSleepKeepsTimer(sleepTimeMs) == LoopTimerUs(sleepTimeMs)

\* DebugManager::enterSleepMode(sleepTimeMs): the timer is armed again
EnterSleepTimerUs(sleepTimeMs) == sleepTimeMs * 1000

\* DebugManager::checkDebugModePin(): the new debug_mode, from the level
\* digitalRead(debug_pin) returns.
CheckDebugModePin(level) == level = "HIGH"

\* Variant: handle() enters deep sleep whatever the mode.
DebugHandleAlwaysSleeps(debug, level) ==
  [debug_mode |-> IF debug THEN level # "LOW" ELSE FALSE,
   pinRead |-> IF debug THEN level ELSE "none",
   sleeps |-> TRUE]

\* DebugManager::handle(sleepTimeMs): in debug mode the pin is read and a LOW
\* level ends debug mode; otherwise enterSleepMode(sleepTimeMs) arms the timer
\* and calls esp_deep_sleep_start().
DebugHandle(debug, level) ==
  [debug_mode |-> IF debug THEN level # "LOW" ELSE FALSE,
   pinRead |-> IF debug THEN level ELSE "none",
   sleeps |-> ~debug]

\* History of one call: op names what ran ("loop" or a scheduler method), the
\* pre* fields are the state it started from, the others what it returned.
NoCycle ==
  [op |-> "none", had |-> FALSE, ret |-> FALSE, ran |-> FALSE, handled |-> {},
   log |-> << >>, attempts |-> 0, published |-> << >>, pinRead |-> "none",
   offered |-> 0, queued |-> 0,
   preLast |-> [s \in Sensors |-> 0], preUrgent |-> [s \in Sensors |-> FALSE],
   preEnabled |-> [s \in Sensors |-> FALSE], preWake |-> 0,
   sleepTime |-> 0, loopUs |-> 0]

NoWake == [dispatched |-> FALSE, served |-> {}, loops |-> 0, pin |-> "none"]

NoPrev == [valid |-> FALSE, now |-> 0, sleep |-> 0, dispatched |-> FALSE,
           allOk |-> TRUE, lu |-> [s \in Sensors |-> 0]]

\* Cold start: RTC memory is zero, nothing constructed yet.
ColdState(b) ==
  /\ schedulerLastWakeTime = 0
  /\ schedulerSleepDuration = 0
  /\ lastUpdate = [s \in Sensors |-> 0]
  /\ bootCount = 0
  /\ urgent = [s \in Sensors |-> FALSE]
  /\ build = b
  /\ tasks = << >>
  /\ enabled = [s \in Sensors |-> FALSE]
  /\ currentWakeTime = 0
  /\ firstBoot = FALSE
  /\ wakeup_reason = "UNDEFINED"
  /\ sleptMs = 0
  /\ timerUs = 0
  /\ debug_mode = FALSE
  /\ pubConnected = FALSE
  /\ pc = "reset"
  /\ cyc = NoCycle
  /\ wk = NoWake
  /\ prev = NoPrev
  /\ fromCold = TRUE
  /\ timerNow = 0
  /\ hwMissing = {}
  /\ sensorFault = {}
  /\ ctorMillis = 0
  /\ everServed = {}
  /\ rain = RainAtColdStart
  /\ millisNow = 0
  /\ mqtt_queue = QueueCtor(MQTT_QUEUE_LENGTH)
  /\ qh = NoHarness

Init == \E b \in Configs : ColdState(b)

\* Static constructors and setup(): the scheduler and the rain gauge object
\* are built from RTC memory, the boot counter advances, the wake cause is
\* reported, the debug pin is read, sensors are registered.
Boot ==
  /\ pc = "reset"
  /\ \E millis \in MillisAtBoot, pin \in {"LOW", "HIGH"}, hw \in HardwareCases :
       LET c == SchedulerCtor(schedulerLastWakeTime, schedulerSleepDuration,
                              wakeup_reason, millis)
           t == SchedulerCtor(schedulerLastWakeTime, schedulerSleepDuration,
                              "TIMER", millis)
           reg == SetupSensors(1, build, hw.missing,
                               [tasks |-> << >>, halted |-> FALSE])
       IN /\ currentWakeTime' = c.currentWakeTime
          /\ firstBoot' = c.firstBoot
          /\ timerNow' = t.currentWakeTime
          /\ ctorMillis' = millis
          /\ millisNow' = millis
          /\ mqtt_queue' = QueueCtor(MQTT_QUEUE_LENGTH)
          /\ rain' = WakeupReason(RaingaugeCtor(rain, millis), wakeup_reason)
          /\ debug_mode' = CheckDebugModePin(pin)
          /\ wk' = [NoWake EXCEPT !.pin = pin]
          /\ hwMissing' = hw.missing
          /\ sensorFault' = hw.fault
          /\ tasks' = reg.tasks
          /\ enabled' = [s \in Sensors |-> s \in Range(reg.tasks)]
          /\ pc' = IF reg.halted THEN "halted" ELSE "loop"
  /\ bootCount' = bootCount + 1
  /\ cyc' = NoCycle
  /\ UNCHANGED << schedulerLastWakeTime, schedulerSleepDuration, lastUpdate,
                  urgent, build, wakeup_reason, sleptMs, timerUs, pubConnected,
                  prev, fromCold, everServed, qh >>

\* One iteration of loop().  had, conn, upd and sleepTime are the values of the
\* calls loop() makes, in its order; each is bound once.  firstOk and the pin
\* level are drawn where loop() reads them.
Loop ==
  /\ pc = "loop"
  /\ \E had \in {HasDataToSend(tasks, enabled, urgent, firstBoot,
                                currentWakeTime, lastUpdate)} :
     \E firstOk \in IF had /\ ~pubConnected THEN {0, 1, maxAttempts} ELSE {0} :
     \E level \in IF debug_mode THEN {"LOW", "HIGH"} ELSE {"HIGH"} :
     \E dm \in {DebugHandle(debug_mode, level)} :
     \E conn \in {IF had THEN ConnectToMqtt(pubConnected, firstOk)
                   ELSE [ret |-> FALSE, connected |-> pubConnected,
                         attempts |-> 0]} :
     \E upd \in {IF had /\ conn.ret
                   THEN CheckAndUpdateAll(tasks, enabled, urgent,
                                          currentWakeTime, lastUpdate)
                   ELSE [lu |-> lastUpdate, urg |-> urgent, handled |-> {},
                         log |-> << >>, lastWake |-> schedulerLastWakeTime]} :
     \E sleepTime \in {GetNextWakeTime(tasks, enabled, upd.urg,
                                        currentWakeTime, upd.lu)} :
     \E gate \in Gates(upd.handled) :
     \E msgs \in {IF had /\ conn.ret THEN MessagesOf(upd.log, gate)
                    ELSE << >>} :
     \E filled \in {EnqueueAll(mqtt_queue, MQTT_QUEUE_LENGTH, msgs)} :
     \E sent \in {IF had /\ conn.ret
                    THEN SendQueuedMessages(filled, MQTT_QUEUE_LENGTH, << >>)
                    ELSE [q |-> mqtt_queue, published |-> << >>]} :
       LET run == had /\ conn.ret
       IN /\ lastUpdate' = upd.lu
          /\ rain' = DispatchRain(rain, upd.handled, gate)
          /\ mqtt_queue' = sent.q
          /\ urgent' = upd.urg
          /\ schedulerLastWakeTime' = upd.lastWake
          /\ schedulerSleepDuration' = PrepareSleep(sleepTime)
          /\ everServed' = everServed \cup upd.handled
          /\ cyc' = [op |-> "loop", had |-> had, ret |-> conn.ret, ran |-> run,
                     handled |-> upd.handled, log |-> upd.log,
                     attempts |-> conn.attempts,
                     published |-> sent.published,
                     offered |-> Len(msgs), queued |-> filled.count,
                     pinRead |-> dm.pinRead,
                     preLast |-> lastUpdate,
                     preUrgent |-> urgent, preEnabled |-> enabled,
                     preWake |-> schedulerLastWakeTime,
                     sleepTime |-> sleepTime,
                     loopUs |-> LoopTimerUs(sleepTime)]
          /\ wk' = [dispatched |-> wk.dispatched \/ run,
                    served |-> wk.served \cup upd.handled,
                    loops |-> IF wk.loops < 2 THEN wk.loops + 1 ELSE wk.loops,
                    pin |-> wk.pin]
          /\ debug_mode' = dm.debug_mode
          /\ IF dm.sleeps
               THEN /\ timerUs' = EnterSleepTimerUs(sleepTime)
                    /\ pubConnected' = FALSE
                    /\ pc' = "asleep"
               ELSE /\ timerUs' = LoopTimerUs(sleepTime)
                    /\ pubConnected' = conn.connected
                    /\ pc' = "loop"
  /\ UNCHANGED << bootCount, build, tasks, enabled, currentWakeTime, firstBoot,
                  wakeup_reason, sleptMs, prev, fromCold, timerNow, envVars,
                  millisNow, qh >>

\* Deep sleep ends: by the timer after the armed time, or earlier by the rain
\* pin (EXT0) or another wake source.  The chip resets; only RTC memory stays.
Wake ==
  /\ pc = "asleep"
  /\ bootCount < MaxBoots
  /\ \E reason \in {"TIMER", "EXT0", "OTHER"} :
       /\ wakeup_reason' = reason
       /\ sleptMs' = IF reason = "TIMER" THEN timerUs \div 1000
                     ELSE IF timerUs \div 1000 > 5000 THEN 5000 ELSE 0
  /\ prev' = [valid |-> TRUE, now |-> currentWakeTime,
              sleep |-> schedulerSleepDuration, dispatched |-> wk.dispatched,
              allOk |-> prev.allOk /\ wk.dispatched, lu |-> lastUpdate]
  /\ pc' = "reset"
  /\ UNCHANGED << schedulerLastWakeTime, schedulerSleepDuration, lastUpdate,
                  bootCount, urgent, build, tasks, enabled, currentWakeTime,
                  firstBoot, timerUs, debug_mode, pubConnected, cyc, wk,
                  fromCold, timerNow, envVars, everServed, rainVars,
                  queueVars >>

Next == Boot \/ Loop \/ Wake

Spec == Init /\ [][Next]_vars

\* ------------------------------------- the scheduler class on any RTC state
\* Values the persistent slots are drawn from: zero, ordinary times, a time one
\* below an ordinary time and a time just below the wrap of the word.  AnyClock
\* pairs a schedulerLastWakeTime with a schedulerSleepDuration.
AnyClock ==
  { << 0, 0 >>, << 59999, 0 >>, << 60000, 30000 >>, << 60000, 60000 >>,
    << Word - 30000, 30000 >>, << Word - 30000, 60000 >> }
AnyLast == {0, 60000, Word - 30000}
AnyConfigs ==
  { << >>, << "RainGauge" >>, << "RainGauge", "SoilTemp" >>,
    << "SoilTemp", "BMP280" >>, << "RainGauge", "SoilTemp", "BMP280" >> }
\* Measurement faults of the wake the scheduler is constructed in.
AnyFaults == { {}, {"SoilTemp", "BMP280"} }

\* A scheduler constructed on arbitrary persistent timing state, its sensors
\* registered, before any of its methods is called.
InitUnit ==
  \E b \in AnyConfigs, c \in AnyClock, millis \in MillisAtBoot,
     reason \in {"TIMER", "EXT0"}, fault \in AnyFaults :
    /\ schedulerLastWakeTime = c[1]
    /\ schedulerSleepDuration = c[2]
    /\ lastUpdate \in {f \in [Sensors -> AnyLast] :
                         \A s \in Sensors \ Range(b) : f[s] = 0}
    /\ bootCount = 1
    /\ urgent = [s \in Sensors |-> FALSE]
    /\ build = b
    /\ tasks = b
    /\ enabled = [s \in Sensors |-> s \in Range(b)]
    /\ currentWakeTime = SchedulerCtor(c[1], c[2], reason, millis).currentWakeTime
    /\ firstBoot = SchedulerCtor(c[1], c[2], reason, millis).firstBoot
    /\ timerNow = SchedulerCtor(c[1], c[2], "TIMER", millis).currentWakeTime
    /\ wakeup_reason = reason
    /\ sleptMs = 0
    /\ timerUs = 0
    /\ debug_mode = FALSE
    /\ pubConnected = FALSE
    /\ pc = "loop"
    /\ cyc = NoCycle
    /\ wk = NoWake
    /\ prev = NoPrev
    /\ fromCold = FALSE
    /\ hwMissing = {}
    /\ sensorFault = fault
    /\ ctorMillis = millis
    /\ everServed = {}
    /\ rain = WakeupReason(RaingaugeCtor(RainAtColdStart, millis), reason)
    /\ millisNow = millis
    /\ mqtt_queue = QueueCtor(MQTT_QUEUE_LENGTH)
    /\ qh = NoHarness

Snapshot(op) ==
  [NoCycle EXCEPT !.op = op, !.preLast = lastUpdate, !.preUrgent = urgent,
                  !.preEnabled = enabled, !.preWake = schedulerLastWakeTime]

\* A sensor captures unsolicited data: its needsUpdate() now reports true.
\* Events and removals come before the methods under test are called.
SensorEvent ==
  /\ cyc.op = "none"
  /\ \E s \in Range(tasks) :
       /\ ~urgent[s]
       /\ urgent' = [urgent EXCEPT ![s] = TRUE]
  /\ UNCHANGED << schedulerLastWakeTime, schedulerSleepDuration, lastUpdate,
                  bootCount, build, tasks, enabled, currentWakeTime, firstBoot,
                  wakeup_reason, sleptMs, timerUs, debug_mode, pubConnected,
                  pc, cyc, wk, prev, fromCold, timerNow, envVars, everServed,
                  rainVars, queueVars >>

\* removeSensor(sensorId): the first task with that id is disabled.
RemoveSensor ==
  /\ cyc.op = "none"
  /\ \E id \in Sensors \cup {"Unknown"} :
       enabled' = RemoveSensorFlags(tasks, enabled, id)
  /\ UNCHANGED << schedulerLastWakeTime, schedulerSleepDuration, lastUpdate,
                  bootCount, urgent, build, tasks, currentWakeTime, firstBoot,
                  wakeup_reason, sleptMs, timerUs, debug_mode, pubConnected,
                  pc, cyc, wk, prev, fromCold, timerNow, envVars, everServed,
                  rainVars, queueVars >>

CallHasDataToSend ==
  /\ cyc' = [Snapshot("hasDataToSend") EXCEPT
               !.had = HasDataToSend(tasks, enabled, urgent, firstBoot,
                                     currentWakeTime, lastUpdate)]
  /\ UNCHANGED << schedulerLastWakeTime, schedulerSleepDuration, lastUpdate,
                  bootCount, urgent, build, tasks, enabled, currentWakeTime,
                  firstBoot, wakeup_reason, sleptMs, timerUs, debug_mode,
                  pubConnected, pc, wk, prev, fromCold, timerNow, envVars,
                  everServed, rainVars, queueVars >>

CallCheckAndUpdateAll ==
  /\ \E upd \in {CheckAndUpdateAll(tasks, enabled, urgent, currentWakeTime,
                                   lastUpdate)} :
     \E gate \in Gates(upd.handled) :
        /\ lastUpdate' = upd.lu
        /\ rain' = DispatchRain(rain, upd.handled, gate)
        /\ mqtt_queue' = EnqueueAll(mqtt_queue, MQTT_QUEUE_LENGTH,
                                    MessagesOf(upd.log, gate))
        /\ urgent' = upd.urg
        /\ schedulerLastWakeTime' = upd.lastWake
        /\ everServed' = everServed \cup upd.handled
        /\ cyc' = [Snapshot("checkAndUpdateAll") EXCEPT
                     !.ran = TRUE, !.handled = upd.handled, !.log = upd.log]
  /\ UNCHANGED << schedulerSleepDuration, bootCount, build, tasks, enabled,
                  currentWakeTime, firstBoot, wakeup_reason, sleptMs, timerUs,
                  debug_mode, pubConnected, pc, wk, prev, fromCold, timerNow,
                  envVars, millisNow, qh >>

CallGetNextWakeTime ==
  /\ cyc' = [Snapshot("getNextWakeTime") EXCEPT
               !.sleepTime = GetNextWakeTime(tasks, enabled, urgent,
                                             currentWakeTime, lastUpdate)]
  /\ UNCHANGED << schedulerLastWakeTime, schedulerSleepDuration, lastUpdate,
                  bootCount, urgent, build, tasks, enabled, currentWakeTime,
                  firstBoot, wakeup_reason, sleptMs, timerUs, debug_mode,
                  pubConnected, pc, wk, prev, fromCold, timerNow, envVars,
                  everServed, rainVars, queueVars >>

NextUnit ==
  \/ SensorEvent
  \/ RemoveSensor
  \/ CallHasDataToSend
  \/ CallCheckAndUpdateAll
  \/ CallGetNextWakeTime

SpecUnit == InitUnit /\ [][NextUnit]_vars

\* ------------------------------------------ the rain gauge during one wake
\* The uptime this wake is followed to, and the updateRain() calls followed.
MaxUptime == 240
MaxReports == 2

\* What RTC memory can hold of the rain gauge when a wake begins: nothing, a
\* tip counted by an earlier rain wake and not reported yet, a tip accepted by
\* isr() after the last report of an earlier wake, or both.
AnyRain ==
  { [count |-> 0, active |-> FALSE, wake |-> 0, isr |-> 0],
    [count |-> 1, active |-> FALSE, wake |-> 1, isr |-> 0],
    [count |-> 1, active |-> TRUE, wake |-> 0, isr |-> 1],
    [count |-> 2, active |-> TRUE, wake |-> 1, isr |-> 1] }

\* The device has just booted from deep sleep: the rain gauge object is
\* constructed, the wake cause reported, the interrupt attached.  The
\* scheduler is idle and stays so.
InitRain ==
  \E a \in AnyRain, millis \in MillisAtBoot, reason \in {"TIMER", "EXT0"} :
    /\ rain = WakeupReason(
                RaingaugeCtor([RainAtColdStart EXCEPT
                                 !.latest_Raincount = a.count,
                                 !.activeRain = a.active,
                                 !.pendingWake = a.wake,
                                 !.pendingIsr = a.isr], millis), reason)
    /\ millisNow = millis
    /\ mqtt_queue = QueueCtor(MQTT_QUEUE_LENGTH)
    /\ qh = NoHarness
    /\ schedulerLastWakeTime = 60000
    /\ schedulerSleepDuration = 60000
    /\ lastUpdate = [s \in Sensors |-> 0]
    /\ bootCount = 2
    /\ urgent = [s \in Sensors |-> FALSE]
    /\ build = << "RainGauge" >>
    /\ tasks = << "RainGauge" >>
    /\ enabled = [s \in Sensors |-> s = "RainGauge"]
    /\ currentWakeTime = SchedulerCtor(60000, 60000, reason, millis).currentWakeTime
    /\ firstBoot = FALSE
    /\ timerNow = SchedulerCtor(60000, 60000, "TIMER", millis).currentWakeTime
    /\ wakeup_reason = reason
    /\ sleptMs = 0
    /\ timerUs = 0
    /\ debug_mode = FALSE
    /\ pubConnected = FALSE
    /\ pc = "loop"
    /\ cyc = NoCycle
    /\ wk = NoWake
    /\ prev = NoPrev
    /\ fromCold = FALSE
    /\ hwMissing = {}
    /\ sensorFault = {}
    /\ ctorMillis = millis
    /\ everServed = {}

schedulerVars ==
  << schedulerLastWakeTime, schedulerSleepDuration, lastUpdate, bootCount,
     urgent, build, tasks, enabled, currentWakeTime, firstBoot, wakeup_reason,
     sleptMs, timerUs, debug_mode, pubConnected, pc, cyc, wk, prev, fromCold,
     timerNow, envVars, everServed >>

\* Time passes while the device is awake.
Tick ==
  /\ \E d \in {50, 51} :
       /\ millisNow + d <= MaxUptime
       /\ millisNow' = millisNow + d
  /\ UNCHANGED << rain, schedulerVars, queueVars >>

\* The pin falls and isr() runs to its end.  Interrupts are never masked, so
\* this can happen between any two statements of updateRain().  lag is the
\* time between the two millis() calls of isr().
IsrFires ==
  /\ \E lag \in IF IsrAccepts(millisNow, rain.lastMillis) THEN {0, 1} ELSE {0} :
       /\ millisNow + lag <= MaxUptime
       /\ rain' = Isr(rain, millisNow, Add(millisNow, lag))
       /\ millisNow' = millisNow + lag
  /\ UNCHANGED << schedulerVars, queueVars >>

\* The main flow executes the next statement of updateRain() (its first one
\* when no call is under way).
UpdateRainRuns ==
  /\ rain.at # "idle" \/ rain.calls < MaxReports
  /\ rain' = [UpdateRainStep(rain) EXCEPT
                !.calls = IF rain.at = "idle" THEN @ + 1 ELSE @]
  /\ mqtt_queue' = IF rain.at \in {"zeroed", "dry"}
                     THEN Enqueue(mqtt_queue, MQTT_QUEUE_LENGTH,
                                  Msg("RainGauge", 0)).q
                     ELSE mqtt_queue
  /\ UNCHANGED << millisNow, schedulerVars, qh >>

NextRain == Tick \/ IsrFires \/ UpdateRainRuns

SpecRain == InitRain /\ [][NextRain]_vars

\* ------------------------------------------------ the message queue alone
\* MAX_SIZE of the queue under test and the number of enqueue calls followed.
QueueSize == 3
MaxMessages == 8

\* The rest of the firmware while the queue is exercised: just booted, idle.
FirmwareIdle ==
  /\ schedulerLastWakeTime = 0
  /\ schedulerSleepDuration = 0
  /\ lastUpdate = [s \in Sensors |-> 0]
  /\ bootCount = 1
  /\ urgent = [s \in Sensors |-> FALSE]
  /\ build = << >>
  /\ tasks = << >>
  /\ enabled = [s \in Sensors |-> FALSE]
  /\ currentWakeTime = 0
  /\ firstBoot = TRUE
  /\ timerNow = 0
  /\ wakeup_reason = "UNDEFINED"
  /\ sleptMs = 0
  /\ timerUs = 0
  /\ debug_mode = FALSE
  /\ pubConnected = FALSE
  /\ pc = "loop"
  /\ cyc = NoCycle
  /\ wk = NoWake
  /\ prev = NoPrev
  /\ fromCold = TRUE
  /\ hwMissing = {}
  /\ sensorFault = {}
  /\ ctorMillis = 0
  /\ everServed = {}
  /\ rain = RainAtColdStart
  /\ millisNow = 0

\* A queue of QueueSize slots just constructed.
InitQueue ==
  /\ mqtt_queue = QueueCtor(QueueSize)
  /\ qh = NoHarness
  /\ FirmwareIdle

\* enqueue() is called with the next message.
CallEnqueue ==
  /\ qh.c.at = "idle"
  /\ qh.made < MaxMessages
  /\ \E e \in {Enqueue(mqtt_queue, QueueSize, Msg("test", qh.made + 1))} :
       /\ mqtt_queue' = e.q
       /\ qh' = [qh EXCEPT
                   !.made = @ + 1,
                   !.accepted = IF e.ret THEN Append(@, Msg("test", qh.made + 1))
                                ELSE @,
                   !.last = [op |-> "enqueue", ret |-> e.ret, pre |-> mqtt_queue,
                             preMessage |-> qh.c.message,
                             msg |-> Msg("test", qh.made + 1)]]
  /\ UNCHANGED << schedulerVars, rainVars >>

\* dequeue(message) is called on the caller's message object and runs to its
\* end.
CallDequeue ==
  /\ qh.c.at = "idle"
  /\ \E d \in {Dequeue(mqtt_queue, QueueSize, qh.c.message)} :
       /\ mqtt_queue' = d.q
       /\ qh' = [qh EXCEPT
                   !.c = [NoCall EXCEPT !.message = d.message, !.ret = d.ret],
                   !.delivered = IF d.ret THEN Append(@, d.message) ELSE @,
                   !.last = [op |-> "dequeue", ret |-> d.ret, pre |-> mqtt_queue,
                             preMessage |-> qh.c.message, msg |-> d.message]]
  /\ UNCHANGED << schedulerVars, rainVars >>

NextQueue == CallEnqueue \/ CallDequeue

SpecQueue == InitQueue /\ [][NextQueue]_vars

\* One producer in interrupt context and one consumer in the main flow: the
\* main flow executes dequeue() statement by statement, and between any two
\* of its statements an interrupt can run enqueue() to its end.
ConsumerRuns ==
  /\ \E n \in {DequeueStep(mqtt_queue, QueueSize, qh.c)} :
       /\ mqtt_queue' = n.q
       /\ qh' = [qh EXCEPT
                   !.c = n.c,
                   !.delivered = IF qh.c.at = "store" THEN Append(@, n.c.message)
                                 ELSE @,
                   !.last = IF n.c.at = "idle"
                              THEN [op |-> "dequeue", ret |-> n.c.ret,
                                    pre |-> mqtt_queue,
                                    preMessage |-> qh.c.message,
                                    msg |-> n.c.message]
                              ELSE @]
  /\ UNCHANGED << schedulerVars, rainVars >>

ProducerIsr ==
  /\ qh.made < MaxMessages
  /\ \E e \in {Enqueue(mqtt_queue, QueueSize, Msg("test", qh.made + 1))} :
       /\ mqtt_queue' = e.q
       /\ qh' = [qh EXCEPT
                   !.made = @ + 1,
                   !.accepted = IF e.ret THEN Append(@, Msg("test", qh.made + 1))
                                ELSE @,
                   !.last = [op |-> "enqueue", ret |-> e.ret, pre |-> mqtt_queue,
                             preMessage |-> qh.c.message,
                             msg |-> Msg("test", qh.made + 1)]]
  /\ UNCHANGED << schedulerVars, rainVars >>

NextQueueIsr == ConsumerRuns \/ ProducerIsr

SpecQueueIsr == InitQueue /\ [][NextQueueIsr]_vars

\* ------------------------------------------------------------ properties

\* Enabled registered sensors at the start of the recorded call.
PreEnabled == {s \in Range(tasks) : cyc.preEnabled[s]}

\* What one loop() iteration on logical time `now` leaves in RTC memory, given
\* the state it started from and the outcome of connectToMqtt.
CycleOutcome(now) ==
  LET had == HasDataToSend(tasks, cyc.preEnabled, cyc.preUrgent, firstBoot,
                           now, cyc.preLast)
      upd == IF had /\ cyc.ret
               THEN CheckAndUpdateAll(tasks, cyc.preEnabled, cyc.preUrgent, now,
                                      cyc.preLast)
               ELSE [lu |-> cyc.preLast, urg |-> cyc.preUrgent, handled |-> {},
                     log |-> << >>, lastWake |-> cyc.preWake]
  IN [lu |-> upd.lu, lastWake |-> upd.lastWake,
      sleep |-> GetNextWakeTime(tasks, cyc.preEnabled, upd.urg, now, upd.lu)]

\* C1: on a wake with lastWakeTime != 0 the logical now is lastWakeTime +
\* plannedSleepDuration whatever the wake cause (it equals what a timer wake
\* computes), and the cycle ends with the lastUpdate values, lastWakeTime and
\* sleep duration that the same cycle run on the timer wake's clock ends with.
C1_WakeCauseIndependent ==
  /\ (pc = "loop" /\ cyc.op = "none" /\ schedulerLastWakeTime # 0) =>
       /\ ~firstBoot
       /\ currentWakeTime = Add(schedulerLastWakeTime, schedulerSleepDuration)
       /\ currentWakeTime = timerNow
  /\ (cyc.op = "loop" /\ ~firstBoot) =>
       /\ lastUpdate = CycleOutcome(timerNow).lu
       /\ schedulerLastWakeTime = CycleOutcome(timerNow).lastWake
       /\ schedulerSleepDuration = CycleOutcome(timerNow).sleep

\* C1 witness: a rain wake 5000 ms into a planned 60000 ms sleep, constructed
\* with logical now = lastWakeTime + 60000.
C1_Witness ==
  /\ pc = "loop" /\ cyc.op = "none"
  /\ wakeup_reason = "EXT0" /\ sleptMs = 5000
  /\ schedulerLastWakeTime # 0 /\ schedulerSleepDuration = 60000
  /\ currentWakeTime = schedulerLastWakeTime + 60000

\* C2: in checkAndUpdateAll an enabled sensor's handle() is called exactly
\* when its lastUpdate is 0, or logicalNow - lastUpdate (unsigned) has reached
\* its interval, or it reports needsUpdate().
C2_DispatchIffDue ==
  cyc.ran =>
    \A s \in PreEnabled :
      (s \in cyc.handled) <=>
        \/ cyc.preLast[s] = 0
        \/ Sub(currentWakeTime, cyc.preLast[s]) >= Interval(s)
        \/ cyc.preUrgent[s]

\* C2 witness: one checkAndUpdateAll call that dispatches a sensor only for
\* its urgent data, one only because its interval has exactly elapsed, and
\* leaves a third, not yet due, alone.
C2_Witness ==
  /\ cyc.op = "checkAndUpdateAll"
  /\ \E s, t, u \in PreEnabled :
       /\ s \in cyc.handled /\ cyc.preUrgent[s] /\ cyc.preLast[s] # 0
       /\ Sub(currentWakeTime, cyc.preLast[s]) < Interval(s)
       /\ t \in cyc.handled /\ ~cyc.preUrgent[t] /\ cyc.preLast[t] # 0
       /\ Sub(currentWakeTime, cyc.preLast[t]) = Interval(t)
       /\ u \notin cyc.handled /\ cyc.preLast[u] # 0

\* Enabled registered sensors now.
NowEnabled == {s \in Range(tasks) : enabled[s]}

Min(S) == CHOOSE x \in S : \A y \in S : x <= y

\* Remaining time-to-due of a sensor: max(0, interval - (now - last)).
Remaining(now, last, interval) ==
  IF Sub(now, last) >= interval THEN 0 ELSE interval - Sub(now, last)

\* C3 (as claimed): getNextWakeTime returns 0 if an enabled sensor reports
\* needsUpdate(); otherwise, with an enabled sensor, the smallest remaining
\* time-to-due, a never-run sensor (lastUpdate = 0) having remaining time 0.
\* The state is the one getNextWakeTime read: nothing changes it before the
\* next call.
C3_NextWakeAsClaimed ==
  (cyc.op \in {"loop", "getNextWakeTime"} /\ NowEnabled # {}) =>
    cyc.sleepTime =
      IF \E s \in NowEnabled : urgent[s] THEN 0
      ELSE Min({IF lastUpdate[s] = 0 THEN 0
                ELSE Remaining(currentWakeTime, lastUpdate[s], Interval(s)) :
                s \in NowEnabled})

\* Sensors that remaining-time planning of the previous wake made due now.
PlannedDue ==
  {s \in Range(tasks) :
     Remaining(prev.now, prev.lu[s], Interval(s)) = prev.sleep}

\* C4: from a cold boot with sensors A (60000) and B (120000) the first cycle
\* that reaches the network dispatches both, proposes 60000 and persists
\* lastWakeTime = logicalNow; the next wake is 60000 later, dispatches A only
\* and proposes 60000 again.  In general, after a wake that dispatched, the
\* next logicalNow is the previous one plus the proposed sleep, and a dispatch
\* then serves exactly the sensors whose remaining time equalled that sleep.
C4_ColdBootSchedule ==
  /\ (fromCold /\ build = << "RainGauge", "SoilTemp" >> /\ pc # "reset"
        /\ cyc.op = "loop" /\ wk.dispatched /\ bootCount = 1) =>
       /\ wk.served = {"RainGauge", "SoilTemp"}
       /\ schedulerSleepDuration = 60000
       /\ schedulerLastWakeTime = currentWakeTime
  /\ (fromCold /\ build = << "RainGauge", "SoilTemp" >> /\ pc # "reset"
        /\ cyc.op = "loop" /\ wk.dispatched /\ bootCount = 2
        /\ prev.dispatched) =>
       /\ currentWakeTime = prev.now + 60000
       /\ wk.served = {"RainGauge"}
       /\ schedulerSleepDuration = 60000
  /\ (fromCold /\ pc = "loop" /\ prev.valid /\ prev.dispatched) =>
       /\ currentWakeTime = Add(prev.now, prev.sleep)
       /\ wk.dispatched => wk.served = PlannedDue

\* C4 witness: the second wake of the A/B build has dispatched A and not B,
\* and in another build a wake serves a proper, non-empty part of the sensors.
C4_Witness ==
  /\ fromCold /\ build = << "RainGauge", "SoilTemp" >>
  /\ bootCount = 2 /\ prev.dispatched /\ wk.dispatched /\ pc = "asleep"
  /\ wk.served = {"RainGauge"} /\ schedulerSleepDuration = 60000

\* C5 (as claimed): when the device enters deep sleep the persisted
\* lastWakeTime is this cycle's logicalNow.
C5_SleepPersistsNow ==
  pc = "asleep" => schedulerLastWakeTime = currentWakeTime

\* C6: when the device is in deep sleep, plannedSleepDuration holds the sleep
\* time of this loop iteration and the wake-up timer is armed with exactly
\* that many milliseconds.
C6_PlannedEqualsArmed ==
  pc = "asleep" =>
    /\ schedulerSleepDuration = cyc.sleepTime
    /\ timerUs = 1000 * schedulerSleepDuration

\* C6 witness: asleep for a time that is not a whole number of seconds, which
\* the timer value set in loop() itself would truncate.
C6_Witness ==
  /\ pc = "asleep"
  /\ schedulerSleepDuration % 1000 # 0
  /\ cyc.loopUs # 1000 * schedulerSleepDuration

\* Sensors of the recorded call that were due when it started.
PreDue ==
  {s \in PreEnabled :
     \/ cyc.preLast[s] = 0
     \/ Sub(currentWakeTime, cyc.preLast[s]) >= Interval(s)
     \/ cyc.preUrgent[s]}

\* C7 (as claimed): when the MQTT connection could not be established the
\* sensors that were due still have lastUpdate = logicalNow at sleep.
C7_AdvanceWithoutNetwork ==
  (pc = "asleep" /\ wk.loops = 1 /\ cyc.had /\ ~cyc.ret) =>
    \A s \in PreDue : lastUpdate[s] = currentWakeTime

\* Sensors of the recorded call whose lastUpdate is one ahead of the logical
\* now: lastUpdate = T # 0 and logicalNow = T - 1.
PreRollover ==
  {s \in PreEnabled :
     cyc.preLast[s] # 0 /\ currentWakeTime = cyc.preLast[s] - 1}

\* Every due computation treats a sensor of PreRollover as due.
RolloverDueEverywhere ==
  \A s \in PreRollover :
    /\ cyc.op = "hasDataToSend" => cyc.had
    /\ cyc.op = "checkAndUpdateAll" => s \in cyc.handled
    /\ cyc.op = "getNextWakeTime" => cyc.sleepTime = 0

C9_NoDueTimePassed ==
  (fromCold /\ pc = "loop" /\ wk.loops = 0 /\ prev.valid /\ prev.allOk) =>
    \A s \in NowEnabled :
      lastUpdate[s] # 0 => Sub(currentWakeTime, lastUpdate[s]) <= Interval(s)

\* C9 witness: a rain wake after two dispatched cycles at which one sensor is
\* exactly due and another, with a longer interval, is part way through it.
C9_Witness ==
  /\ fromCold /\ pc = "loop" /\ wk.loops = 0 /\ prev.valid /\ prev.allOk
  /\ wakeup_reason = "EXT0" /\ bootCount >= 3
  /\ \E s, t \in NowEnabled :
       /\ Interval(s) < Interval(t)
       /\ lastUpdate[s] # 0 /\ lastUpdate[t] # 0
       /\ Sub(currentWakeTime, lastUpdate[s]) = Interval(s)
       /\ Sub(currentWakeTime, lastUpdate[t]) > 0
       /\ Sub(currentWakeTime, lastUpdate[t]) < Interval(t)

\* An enabled sensor of the recorded call is due for hasDataToSend.
PreSomeDue ==
  \E s \in PreEnabled :
    \/ cyc.preUrgent[s]
    \/ cyc.preLast[s] = 0
    \/ currentWakeTime < cyc.preLast[s]
    \/ currentWakeTime - cyc.preLast[s] >= Interval(s)

\* C10 (as claimed): hasDataToSend returns true exactly when some enabled
\* sensor is due or this wake is a first boot, whatever sensors are registered.
C10_HasDataAsClaimed ==
  cyc.op = "hasDataToSend" => (cyc.had <=> (PreSomeDue \/ firstBoot))

\* C10 (amended): hasDataToSend returns true exactly when some enabled sensor
\* is due, or this wake is a first boot and at least one sensor is enabled.
C10_HasDataIffDueOrFirstBoot ==
  cyc.op = "hasDataToSend" =>
    (cyc.had <=> (PreSomeDue \/ (firstBoot /\ PreEnabled # {})))

\* C10 witness: on a first boot hasDataToSend returns true although the only
\* reason is the first-boot flag: every enabled sensor was stamped just now.
C10_Witness ==
  /\ cyc.op = "hasDataToSend" /\ cyc.had /\ firstBoot
  /\ PreEnabled # {} /\ ~PreSomeDue

\* C11: when the scheduler has just been constructed, the wake is a first boot
\* exactly when the persisted lastWakeTime is 0; on a first boot the logical
\* now is the uptime the constructor read, on every other wake it is
\* lastWakeTime + plannedSleepDuration.
C11_ColdBootClassified ==
  (pc \in {"loop", "halted"} /\ cyc.op = "none") =>
    /\ firstBoot <=> (schedulerLastWakeTime = 0)
    /\ firstBoot => currentWakeTime = ctorMillis
    /\ ~firstBoot =>
         currentWakeTime = Add(schedulerLastWakeTime, schedulerSleepDuration)

\* C11 witness: a warm wake by another cause than timer or rain pin whose
\* logical now is not the uptime the constructor could read.
C11_Witness ==
  /\ pc = "loop" /\ cyc.op = "none" /\ bootCount >= 2
  /\ wakeup_reason = "OTHER" /\ ~firstBoot
  /\ schedulerSleepDuration > 0
  /\ currentWakeTime # ctorMillis

\* C12 (as claimed): no step of a warm wake decreases the persisted
\* lastWakeTime.
C12_LastWakeMonotonic ==
  [][schedulerLastWakeTime' >= schedulerLastWakeTime]_vars

\* C13 (as claimed): every sleep duration loop() hands to prepareSleep and to
\* the power controller is at least a floor that rules out zero-length sleeps.
C13_SleepClamped ==
  cyc.op = "loop" =>
    /\ cyc.sleepTime >= 1
    /\ schedulerSleepDuration >= 1

FaultFreeDispatch ==
  CheckFrom(1, tasks, cyc.preEnabled, currentWakeTime,
            DispatchStart(cyc.preUrgent, cyc.preLast, {}))

\* C15: in a loop iteration that dispatched, every dispatched sensor is
\* stamped with the logical now, directly after its handle() call, whether its
\* measurement failed or not; lastUpdate of all sensors, lastWakeTime and the
\* planned sleep are those of the same dispatch without any failure.
C15_FailedHandleKeepsTiming ==
  (cyc.op = "loop" /\ cyc.ran) =>
    /\ \A s \in cyc.handled : lastUpdate[s] = currentWakeTime
    /\ \A s \in cyc.handled :
         \E i \in 1..Len(cyc.log) : cyc.log[i] = << "stamp", s, currentWakeTime >>
    /\ \A i \in 1..Len(cyc.log) :
         cyc.log[i][1] = "stamp" =>
           /\ i > 1
           /\ cyc.log[i - 1][1] = "handle"
           /\ cyc.log[i - 1][2] = cyc.log[i][2]
    /\ lastUpdate = FaultFreeDispatch.lu
    /\ schedulerLastWakeTime = currentWakeTime
    /\ schedulerSleepDuration =
         GetNextWakeTime(tasks, cyc.preEnabled, FaultFreeDispatch.urg,
                         currentWakeTime, FaultFreeDispatch.lu)

\* C15 witness: one dispatch served a sensor whose measurement failed and one
\* whose measurement succeeded.
C15_Witness ==
  /\ cyc.op = "loop" /\ cyc.ran
  /\ \E i, j \in 1..Len(cyc.log) :
       /\ cyc.log[i][1] = "handle" /\ cyc.log[i][3] = "stale"
       /\ cyc.log[j][1] = "handle" /\ cyc.log[j][3] = "fresh"

\* Sensors this build registers whose hardware was not found in this wake.
MissingHere == hwMissing \cap Range(build)

\* C16 (as claimed): when a sensor's hardware is not found in begin(), setup
\* still completes, that sensor is disabled for this boot and the other
\* sensors of the build are registered and enabled.
C16_MissingHardwareNotFatal ==
  (pc # "reset" /\ MissingHere # {}) =>
    /\ pc # "halted"
    /\ \A s \in MissingHere : ~enabled[s]
    /\ \A s \in (Range(build) \cap Sensors) \ MissingHere :
         s \in Range(tasks) /\ enabled[s]

\* C17 (as claimed): a build that registers a null sensor, or a sensor without
\* a persistent slot, halts in setup.
C17_BadRegistrationFatal ==
  (pc # "reset" /\ Range(build) \cap {"Null", "NoSlot"} # {}) =>
    pc = "halted"

\* C18: a bucket tip that wakes the device (counted by print_wakeup_reason) is
\* part of the rainfall of the next rain report, once: updateRain never resets
\* the counter over such a tip that no report covered, and a report that
\* covers such tips carries their amount (exactly their amount when it covers
\* no tip of isr()).
C18_WakeTipReportedOnce ==
  /\ ~rain.erasedWake
  /\ rain.report.made /\ rain.report.wake > 0 =>
       /\ rain.report.value >= UnitOfRain * rain.report.wake
       /\ rain.report.isr = 0 =>
            rain.report.value = UnitOfRain * rain.report.wake

\* C19: for every interleaving of isr() with updateRain(), a tip accepted by
\* isr() is in the value being reported or still in latest_Raincount and
\* activeRain afterwards: updateRain never resets the counter over an accepted
\* tip that no report covered.
C19_AcceptedTipNeverErased == ~rain.erasedIsr

IsPrefix(a, b) == Len(a) <= Len(b) /\ \A i \in 1..Len(a) : a[i] = b[i]

\* C22: for any sequence of enqueue and dequeue calls, the messages returned
\* by successful dequeues are, in order, the messages of the enqueues that
\* succeeded, also after head and tail have wrapped around MAX_SIZE; what is
\* still stored is the rest of them.
C22_Fifo ==
  /\ IsPrefix(qh.delivered, qh.accepted)
  /\ mqtt_queue.count = Len(qh.accepted) - Len(qh.delivered)
  /\ \A i \in 1..mqtt_queue.count :
       mqtt_queue.slots[(mqtt_queue.head + i - 1) % QueueSize]
         = qh.accepted[Len(qh.delivered) + i]

\* More messages than the queue has slots went through it, and the last one
\* was dequeued from a queue whose stored messages lay across the wrap.
C22_Witness ==
  /\ Len(qh.delivered) > QueueSize
  /\ qh.last.op = "dequeue" /\ qh.last.ret
  /\ qh.last.pre.count >= 2
  /\ qh.last.pre.head + qh.last.pre.count > QueueSize

\* C23: enqueue() on a queue holding MAX_SIZE messages returns false and
\* leaves head, tail, count and every slot unchanged; on a queue that is not
\* full it returns true, stores the message in the slot at the tail, advances
\* the tail and raises count by exactly 1, leaving head and the other slots.
C23_EnqueueContract ==
  qh.last.op = "enqueue" =>
    LET pre == qh.last.pre
    IN /\ pre.count = QueueSize => ~qh.last.ret /\ mqtt_queue = pre
       /\ pre.count # QueueSize =>
            /\ qh.last.ret
            /\ mqtt_queue.slots[pre.tail] = qh.last.msg
            /\ \A i \in DOMAIN pre.slots \ {pre.tail} :
                 mqtt_queue.slots[i] = pre.slots[i]
            /\ mqtt_queue.count = pre.count + 1
            /\ mqtt_queue.tail = (pre.tail + 1) % QueueSize
            /\ mqtt_queue.head = pre.head

\* An enqueue() on a full queue whose tail has wrapped was refused.
C23_Witness ==
  /\ qh.last.op = "enqueue" /\ ~qh.last.ret
  /\ qh.last.pre.count = QueueSize
  /\ Len(qh.delivered) >= 1

\* C24: dequeue() on an empty queue returns false and leaves the caller's
\* message object and head, tail and count unchanged; on a queue that is not
\* empty it returns true and lowers count by exactly 1.
C24_DequeueContract ==
  qh.last.op = "dequeue" =>
    LET pre == qh.last.pre
    IN /\ pre.count = 0 =>
            /\ ~qh.last.ret
            /\ mqtt_queue = pre
            /\ qh.last.msg = qh.last.preMessage
       /\ pre.count # 0 =>
            /\ qh.last.ret
            /\ mqtt_queue.count = pre.count - 1

\* A dequeue() on an empty queue was refused while the caller's object held
\* an earlier message, and one on a full queue succeeded before.
C24_Witness ==
  /\ qh.last.op = "dequeue" /\ ~qh.last.ret
  /\ qh.last.preMessage # NoMsg
  /\ Len(qh.delivered) >= QueueSize

\* C25: with one producer and one consumer running concurrently, whenever no
\* dequeue() is under way count is the number of accepted messages not yet
\* delivered, and the delivered messages are the first accepted ones, each
\* once: none is lost and none delivered twice.
C25_ProducerConsumerSafe ==
  qh.c.at = "idle" =>
    /\ mqtt_queue.count = Len(qh.accepted) - Len(qh.delivered)
    /\ IsPrefix(qh.delivered, qh.accepted)

\* The sensors whose handle() a dispatch called, in the order of the calls.
RECURSIVE HandleCalls(_)
HandleCalls(log) ==
  IF log = << >> THEN << >>
  ELSE IF Head(log)[1] = "handle"
         THEN << Head(log)[2] >> \o HandleCalls(Tail(log))
         ELSE HandleCalls(Tail(log))

\* C21: within a cycle the due sensors are dispatched in registration order,
\* each handle() (and its stamp) complete before the next begins, and the
\* messages they queue are published by sendQueuedMessages in registration
\* order, leaving the queue empty.
C21_RegistrationOrder ==
  (cyc.op = "loop" /\ cyc.ran) =>
    LET InHandled(s) == s \in cyc.handled
        sentBy == {cyc.published[i].payload[1] : i \in 1..Len(cyc.published)}
        WasSent(s) == s \in sentBy
    IN /\ HandleCalls(cyc.log) = SelectSeq(tasks, InHandled)
       /\ Len(cyc.log) = 2 * Cardinality(cyc.handled)
       /\ \A i \in 1..Len(cyc.log) :
            i % 2 = 1 => /\ cyc.log[i][1] = "handle"
                         /\ cyc.log[i + 1][1] = "stamp"
                         /\ cyc.log[i + 1][2] = cyc.log[i][2]
       /\ sentBy \subseteq cyc.handled
       /\ cyc.handled \ {"RainGauge"} \subseteq sentBy
       /\ Len(cyc.published) = Cardinality(sentBy)
       /\ \A i \in 1..Len(cyc.published) :
            cyc.published[i] = Msg(SelectSeq(tasks, WasSent)[i], 0)
       /\ IsEmpty(mqtt_queue)

\* A cycle dispatched all four sensors and published their four messages.
C21_Witness ==
  /\ cyc.op = "loop" /\ cyc.ran
  /\ Cardinality(cyc.handled) = 4
  /\ Len(cyc.published) = 4

C27_GroundedPinEntersDebug ==
  (pc \in {"loop", "halted"} /\ wk.pin # "none" /\ wk.loops = 0) =>
    (debug_mode <=> wk.pin = "LOW")

\* The registered tasks that are enabled, in registration order, in the state
\* a scheduler call started from.
PreEnabledTasks ==
  LET En(s) == cyc.preEnabled[s] IN SelectSeq(tasks, En)

AllEnabled == [s \in Sensors |-> TRUE]

C29_GiveUpAfterFiveAttempts ==
  [][pc = "loop" =>
       /\ cyc'.attempts <= maxAttempts
       /\ cyc'.ret => cyc'.attempts >= 1
       /\ (cyc'.had /\ ~pubConnected /\ ~cyc'.ret) =>
            /\ cyc'.attempts = maxAttempts
            /\ cyc'.handled = {}
            /\ cyc'.published = << >>
            /\ lastUpdate' = lastUpdate
            /\ mqtt_queue' = mqtt_queue
            /\ cyc'.sleepTime = GetNextWakeTime(tasks, enabled, urgent,
                                                currentWakeTime, lastUpdate)
            /\ schedulerSleepDuration' = cyc'.sleepTime
            /\ ~debug_mode =>
                 /\ pc' = "asleep"
                 /\ timerUs' = EnterSleepTimerUs(cyc'.sleepTime)]_vars

\* A loop() with data to send made five attempts, got false, dispatched and
\* published nothing and went to deep sleep.
C29_Witness ==
  /\ pc = "asleep"
  /\ cyc.op = "loop"
  /\ cyc.had
  /\ ~cyc.ret
  /\ cyc.attempts = maxAttempts
  /\ cyc.handled = {}
  /\ cyc.published = << >>
  /\ schedulerSleepDuration = cyc.sleepTime

\* C30: on a wake that is not a first boot, whenever hasDataToSend() returns
\* true the checkAndUpdateAll() of the same state calls handle() on at least
\* one sensor.
C30_HasDataImpliesDispatch ==
  (pc = "loop" /\ ~firstBoot
     /\ HasDataToSend(tasks, enabled, urgent, firstBoot, currentWakeTime,
                      lastUpdate)) =>
    CheckAndUpdateAll(tasks, enabled, urgent, currentWakeTime,
                      lastUpdate).handled # {}

\* C31: across successive wakes from deep sleep the logical now computed by
\* the constructor is never smaller than the logical now of the previous
\* wake, whether or not that wake dispatched.
C31_LogicalNowMonotone ==
  (pc = "loop" /\ prev.valid) => currentWakeTime >= prev.now

\* C32: every invocation of isr() that passes the debounce test increases
\* latest_Raincount by exactly 1.
C32_AcceptedTipCountsOne ==
  [][rain'.pendingIsr = rain.pendingIsr + 1 =>
       rain'.latest_Raincount = rain.latest_Raincount + 1]_vars

\* C33: checkAndUpdateAll() writes lastUpdate only for the sensors whose
\* handle() it calls, and those are enabled and due; every other sensor,
\* enabled or disabled, keeps its lastUpdate.  The planned sleep duration is
\* not touched, and the last wake time is the one value the call itself
\* persists.
C33_StampsOnlyDispatched ==
  [][(cyc'.op = "checkAndUpdateAll" /\ cyc' # cyc) =>
       /\ \A s \in Sensors :
            lastUpdate'[s] = IF s \in cyc'.handled THEN currentWakeTime
                             ELSE lastUpdate[s]
       /\ \A s \in cyc'.handled :
            /\ s \in Range(tasks) /\ enabled[s]
            /\ IntervalDue(currentWakeTime, lastUpdate[s], Interval(s))
                 \/ urgent[s]
       /\ schedulerSleepDuration' = schedulerSleepDuration
       /\ schedulerLastWakeTime' = currentWakeTime]_vars

\* A dispatch served one sensor and left alone an enabled sensor that was not
\* due and a disabled one, both with a lastUpdate from an earlier wake.
C33_Witness ==
  /\ cyc.op = "checkAndUpdateAll"
  /\ cyc.handled # {}
  /\ \E s, t \in Range(tasks) \ cyc.handled :
       /\ enabled[s] /\ ~enabled[t]
       /\ cyc.preLast[s] # 0 /\ lastUpdate[s] = cyc.preLast[s]
       /\ cyc.preLast[t] # 0 /\ lastUpdate[t] = cyc.preLast[t]

\* C34: once checkAndUpdateAll() has run, a second call in the same wake with
\* no sensor reporting needsUpdate() calls no handle() and changes no
\* persisted value.
C34_SecondDispatchIdle ==
  (cyc.op \in {"checkAndUpdateAll", "loop"} /\ cyc.ran
     /\ \A s \in Sensors : ~urgent[s]) =>
    /\ CheckAndUpdateAll(tasks, enabled, urgent, currentWakeTime,
                         lastUpdate).handled = {}
    /\ CheckAndUpdateAll(tasks, enabled, urgent, currentWakeTime,
                         lastUpdate).lu = lastUpdate
    /\ CheckAndUpdateAll(tasks, enabled, urgent, currentWakeTime,
                         lastUpdate).lastWake = schedulerLastWakeTime

\* C35: connectToMqtt() returns true exactly when the MQTT client is connected
\* when it returns, also when the client was connected at entry; checked on
\* the loop() iterations that call it and do not end in deep sleep.
C35_ReturnsConnected ==
  [][(pc = "loop" /\ pc' = "loop" /\ cyc'.had) =>
       (cyc'.ret <=> pubConnected')]_vars

\* C36: getNextWakeTime() never returns more than the smallest interval among
\* the enabled sensors, and returns the default 60000 ms when no sensor is
\* enabled or none is registered.
C36_SleepAtMostShortestInterval ==
  cyc.op = "getNextWakeTime" =>
    IF PreEnabled = {}
      THEN cyc.sleepTime = DefaultSleepMs
      ELSE cyc.sleepTime <= Min({Interval(s) : s \in PreEnabled})

\* getNextWakeTime() returned exactly the shortest interval with two enabled
\* sensors of different intervals.
C36_Witness ==
  /\ cyc.op = "getNextWakeTime"
  /\ \E s, t \in PreEnabled : Interval(s) < Interval(t)
  /\ cyc.sleepTime = Min({Interval(s) : s \in PreEnabled})
  /\ cyc.sleepTime > 0

\* C37: in the main loop the outbound queue never saturates.  Every message a
\* dispatched sensor offers is accepted by enqueue(), the queue holds fewer
\* than its capacity of 10 at its fullest, sendQueuedMessages() sends all of
\* them, and the queue is empty after every loop() and whenever the device
\* enters deep sleep.
C37_QueueNeverSaturates ==
  /\ cyc.op = "loop" =>
       /\ cyc.queued = cyc.offered
       /\ cyc.queued < MQTT_QUEUE_LENGTH
       /\ Len(cyc.published) = cyc.offered
       /\ ~IsFull(mqtt_queue, MQTT_QUEUE_LENGTH)
  /\ pc = "asleep" => IsEmpty(mqtt_queue)

\* The four messages of a dispatch of all four sensors were queued and sent,
\* and the device went to deep sleep with the queue empty.
C37_Witness ==
  /\ pc = "asleep"
  /\ cyc.op = "loop"
  /\ cyc.offered = 4 /\ cyc.queued = 4
  /\ Len(cyc.published) = 4
  /\ IsEmpty(mqtt_queue)

\* C38: after any sequence of enqueue and dequeue calls 0 <= count <= MAX_SIZE,
\* head < MAX_SIZE, tail < MAX_SIZE and tail = (head + count) mod MAX_SIZE;
\* isEmpty() holds exactly when count = 0 and isFull() exactly when
\* count = MAX_SIZE.
C38_QueueIndices ==
  /\ mqtt_queue.count \in 0..QueueSize
  /\ mqtt_queue.head \in 0..(QueueSize - 1)
  /\ mqtt_queue.tail \in 0..(QueueSize - 1)
  /\ mqtt_queue.tail = (mqtt_queue.head + mqtt_queue.count) % QueueSize
  /\ IsEmpty(mqtt_queue) <=> mqtt_queue.count = 0
  /\ IsFull(mqtt_queue, QueueSize) <=> mqtt_queue.count = QueueSize

\* An enqueue has filled the queue after head and tail both moved on from
\* slot 0: the occupied slots wrap around the end of the array.
C38_Witness ==
  /\ qh.last.op = "enqueue" /\ qh.last.ret
  /\ IsFull(mqtt_queue, QueueSize)
  /\ mqtt_queue.head > 0
  /\ mqtt_queue.tail = mqtt_queue.head
  /\ Len(qh.delivered) > 0

====
